---- MODULE Spec2Model ----
(***************************************************************************)
(* A model of spec_plots/specutils_stis.py: the STIS data model            *)
(* (STIS1DSpectrum, STISExposureSpectrum, STISOrderSpectrum), the          *)
(* association selector get_association_indices, the reader readspec and   *)
(* the preview renderer plotspec.                                          *)
(*                                                                         *)
(* Python values are modelled as follows.  A list or numpy array is a      *)
(* sequence; an optional argument is <<>> when it is None and <<v>> when   *)
(* it is given; a dict is a function whose DOMAIN is its set of keys; a    *)
(* float that may be NaN or infinite is a record [k, v] (see Fin, NaN,     *)
(* Inf); a path is a sequence of one-character strings.                    *)
(*                                                                         *)
(* The module holds four specifications over one set of variables, one per *)
(* entry point: SpecSel (get_association_indices), SpecCtor (the three     *)
(* constructors), SpecRead (readspec) and SpecPlot (plotspec).  Each       *)
(* leaves the variables of the other entry points at their idle values.    *)
(***************************************************************************)
EXTENDS Integers, Sequences, FiniteSets, TLC

VARIABLES
    \* get_association_indices
    associations,             \* the argument: a list of associations
    subplot_indices,          \* the returned list
    sel_pc,                   \* "call" | "returned"
    \* constructors
    ctor_call,                \* the constructor called and its arguments
    ctor_ret,                 \* what the call produced: an object or an error
    \* readspec
    hdulist,                  \* the extensions after the primary one
    hdu_open,                 \* is the FITS file open? (the with block)
    input_file,               \* the name of the FITS file
    exten_idx,                \* extensions consumed so far by the loop
    all_association_spectra,  \* the running list of exposure spectra
    rd_pc,                    \* "start" | "loop" | "returned" | "raised"
    rd_ret,                   \* the returned spectrum or the raised error
    \* plotspec: parameters
    n_associations,           \* len(stis_spectrum.associations)
    association_indices,      \* the indices chosen by get_association_indices
    output_type,              \* "screen" or a raster format
    output_file,              \* the requested output path
    output_size_arg,          \* the output_size argument as passed
    output_size,              \* output_size from line 212 on: an integer
    debug,
    full_ylabels,
    \* plotspec: locals
    pl_pc,                    \* "start" | "figure" | "loop" | "output" | "done" | "raised" | "exited"
    is_bigplot,
    subplot_i,                \* iterations of the loop over stitched_spectra begun so far
    stitched_i,               \* stitched_spectra[i] as read by the last iteration
    metrics_i,                \* plot_metrics[i] as read by the last iteration
    pyplot_xrange,            \* the last get_xlim() capture, <<>> when none
    this_figure,              \* the figure: suptitle and margins
    these_plotareas,          \* the subplots (axes), top to bottom
    pl_exc,                   \* the exception that ended the call, or the exit status
    \* plotspec: the world outside
    rc_font,                  \* matplotlib's process-wide font setting: "default" | "size=10"
    rc_entry,                 \* rc_font as it was when the call began
    mkdir_calls,              \* the os.mkdir calls made, each with its outcome
    stderr,                   \* what was written to sys.stderr
    saved_files,              \* the savefig calls made: the file names
    shown                     \* was pyplot.show() called?

selVars  == <<associations, subplot_indices, sel_pc>>
ctorVars == <<ctor_call, ctor_ret>>
readVars == <<input_file, hdulist, hdu_open, exten_idx, all_association_spectra, rd_pc, rd_ret>>
plotParams == <<n_associations, association_indices, output_type, output_file,
                output_size_arg, debug, full_ylabels>>
plotLocals == <<pl_pc, output_size, is_bigplot, subplot_i, stitched_i, metrics_i, pyplot_xrange,
                this_figure, these_plotareas, pl_exc>>
plotWorld  == <<rc_font, rc_entry, mkdir_calls, stderr, saved_files, shown>>
plotVars   == <<plotParams, plotLocals, plotWorld>>

-----------------------------------------------------------------------------
(* Bounds of the model. *)

MaxAssoc  == 60   \* associations handed to get_association_indices
MaxNelem  == 2    \* largest nelem of an order
MaxLen    == 2    \* longest array handed to the STISOrderSpectrum constructor
MaxRows   == 2    \* most rows (orders) in one table extension
MaxExt    == 2    \* most table extensions in one file

-----------------------------------------------------------------------------
(* Python helpers. *)

None    == <<>>
Some(v) == <<v>>
IsNone(o) == o = <<>>
Get(o)  == o[1]

\* range(n): the list [0, 1, ..., n-1].
Range(n) == [i \in 1..n |-> i - 1]

\* Rounding num/den to the nearest integer with a tie going to the even
\* neighbour (what Python 3's round() does): not what this code runs under.
RoundHalfEven(num, den) ==
    LET q == num \div den
        r == num % den
    IN  IF 2 * r < den THEN q
        ELSE IF 2 * r > den THEN q + 1
        ELSE IF q % 2 = 0 THEN q ELSE q + 1

\* Python 2 round() to zero decimals, then int(): the nearest integer to
\* num/den, a tie going away from zero.  Defined here for num >= 0, den > 0.
\* (The module is Python 2 code: it uses xrange and an implicit relative
\* import.)
PyRound(num, den) ==
    LET q == num \div den
        r == num % den
    IN  IF 2 * r >= den THEN q + 1 ELSE q

-----------------------------------------------------------------------------
(* get_association_indices *)

get_association_indices(assocs) ==
    LET n == Len(assocs)                       \* n_associations
    IN  IF n <= 3
        THEN Range(n)
        ELSE LET midindex == PyRound(n, 2)
             IN  <<0, midindex, n - 1>>

\* The lists the selector is handed: only their length matters to it.
AssociationLists == {[i \in 1..n |-> i] : n \in 0..MaxAssoc}

\* The values of selVars when get_association_indices is not the entry point.
SelIdle == <<<<>>, <<>>, "idle">>

SelCall ==
    /\ sel_pc = "call"
    /\ subplot_indices' = get_association_indices(associations)
    /\ sel_pc' = "returned"
    /\ UNCHANGED associations

-----------------------------------------------------------------------------
(* The data model: STISOrderSpectrum, STISExposureSpectrum, STIS1DSpectrum. *)

\* numpy.zeros(n) for n >= 0 (a negative n raises ValueError).
Zeros(n) == [i \in 1..n |-> 0]

\* numpy.asarray(x) of a flat list: the same elements in the same order.
AsArray(x) == x

\* Results of a constructor call.
Ok(obj)       == [status |-> "ok", obj |-> obj]
Raised(etype) == [status |-> "raised", obj |-> etype]

\* One array attribute of an order: the given data, or zeros of length nelem.
OrderArray(arg, nelem) == IF IsNone(arg) THEN Zeros(nelem) ELSE AsArray(Get(arg))

STISOrderSpectrum(nelem, wavelengths, fluxes, fluxerrs, dqs) ==
    LET self_nelem == IF IsNone(nelem) THEN 0 ELSE Get(nelem)
    IN  IF self_nelem < 0 /\ (IsNone(wavelengths) \/ IsNone(fluxes)
                               \/ IsNone(fluxerrs) \/ IsNone(dqs))
        THEN Raised("ValueError")   \* numpy.zeros of a negative length
        ELSE Ok([nelem       |-> self_nelem,
                 wavelengths |-> OrderArray(wavelengths, self_nelem),
                 fluxes      |-> OrderArray(fluxes, self_nelem),
                 fluxerrs    |-> OrderArray(fluxerrs, self_nelem),
                 dqs         |-> OrderArray(dqs, self_nelem)])

\* A constructor that accepts the empty list too.
STISExposureSpectrumNoCheck(order_spectra) == Ok([orders |-> order_spectra])

STISExposureSpectrum(order_spectra) ==
    IF Len(order_spectra) > 0
    THEN Ok([orders |-> order_spectra])
    ELSE Raised("ValueError")

STIS1DSpectrum(association_spectra, orig_file) ==
    Ok([orig_file |-> orig_file, associations |-> association_spectra])

\* Argument domains of the constructor calls.
SeqsUpTo(S, n) == UNION {[1..k -> S] : k \in 0..n}
Opt(S) == {None} \cup {Some(v) : v \in S}

ArrayArgs == Opt(SeqsUpTo({0, 1}, MaxLen))
NelemArgs == Opt(-1..MaxNelem)

\* Orders and exposures that the list-taking constructors are handed.
PreallocatedOrder(n) == STISOrderSpectrum(Some(n), None, None, None, None).obj
OrderPool    == {PreallocatedOrder(n) : n \in 0..MaxNelem}
ExposurePool == {STISExposureSpectrum(<<o>>).obj : o \in OrderPool}
FileNames    == {<<"a", ".", "f">>}

\* The values of ctorVars when no constructor is the entry point.
CtorIdle == <<[fn |-> "none"], [status |-> "idle"]>>

\* Each behaviour makes one constructor call.
NotCalled == ctor_call.fn = "none"

NewOrder ==
    /\ NotCalled
    /\ \E n \in NelemArgs, w \in ArrayArgs, f \in ArrayArgs, e \in ArrayArgs, d \in ArrayArgs :
        /\ ctor_call' = [fn |-> "STISOrderSpectrum", nelem |-> n, wavelengths |-> w,
                         fluxes |-> f, fluxerrs |-> e, dqs |-> d]
        /\ ctor_ret' = STISOrderSpectrum(n, w, f, e, d)

NewExposure ==
    /\ NotCalled
    /\ \E os \in SeqsUpTo(OrderPool, MaxRows) :
        /\ ctor_call' = [fn |-> "STISExposureSpectrum", order_spectra |-> os]
        /\ ctor_ret' = STISExposureSpectrum(os)

NewSpectrum ==
    /\ NotCalled
    /\ \E as \in SeqsUpTo(ExposurePool, MaxExt), of \in Opt(FileNames) :
        /\ ctor_call' = [fn |-> "STIS1DSpectrum", association_spectra |-> as,
                         orig_file |-> of]
        /\ ctor_ret' = STIS1DSpectrum(as, of)

-----------------------------------------------------------------------------
(* readspec *)

\* One table row of an extension: an order of n elements.  The four arrays
\* are sized to nelem and differ from one another.
TableRow(n) ==
    [sporder    |-> n,
     nelem      |-> n,
     WAVELENGTH |-> [i \in 1..n |-> i],
     FLUX       |-> [i \in 1..n |-> 10 + i],
     ERROR      |-> [i \in 1..n |-> 20 + i],
     DQ         |-> [i \in 1..n |-> 30 + i]]

TableRows  == {TableRow(n) : n \in 1..MaxNelem}
Extensions == SeqsUpTo(TableRows, MaxRows)       \* exten.data, row by row
HduLists   == SeqsUpTo(Extensions, MaxExt)       \* hdulist[1:]

\* The list comprehension of line 389 with the rows taken last to first.
ReadOrdersReversed(exten_data_table) ==
    LET n_orders == Len(exten_data_table)
    IN  [order \in 1..n_orders |->
            LET row == exten_data_table[n_orders + 1 - order]
            IN  STISOrderSpectrum(Some(row.nelem), Some(row.WAVELENGTH),
                    Some(row.FLUX), Some(row.ERROR), Some(row.DQ))]

\* The list comprehension of line 389: one constructor call per table row.
ReadOrders(exten_data_table) ==
    LET n_orders == Len(exten_data_table)
    IN  [order \in 1..n_orders |->
            LET row == exten_data_table[order]
            IN  STISOrderSpectrum(Some(row.nelem), Some(row.WAVELENGTH),
                    Some(row.FLUX), Some(row.ERROR), Some(row.DQ))]

\* The values of readVars when readspec is not the entry point.
ReadIdle == <<<<>>, <<>>, FALSE, 0, <<>>, "idle", [status |-> "idle"]>>

\* with fits.open(input_file) as hdulist: all_association_spectra = []
ReadOpen ==
    /\ rd_pc = "start"
    /\ hdu_open' = TRUE
    /\ all_association_spectra' = <<>>
    /\ exten_idx' = 0
    /\ rd_pc' = "loop"
    /\ UNCHANGED <<input_file, hdulist, rd_ret>>

\* One iteration of the loop over hdulist[1:].  An exception leaves the with
\* block, which closes the file.
ReadExten ==
    /\ rd_pc = "loop"
    /\ exten_idx < Len(hdulist)
    /\ LET exten_data_table == hdulist[exten_idx + 1]
           built == ReadOrders(exten_data_table)
           failed == {k \in DOMAIN built : built[k].status = "raised"}
           all_order_spectra == [k \in DOMAIN built |-> built[k].obj]
           this_exposure_spectrum == STISExposureSpectrum(all_order_spectra)
       IN  IF failed # {} \/ this_exposure_spectrum.status = "raised"
           THEN /\ rd_pc' = "raised"
                /\ rd_ret' = Raised("ValueError")
                /\ hdu_open' = FALSE
                /\ UNCHANGED <<exten_idx, all_association_spectra>>
           ELSE /\ all_association_spectra' =
                       Append(all_association_spectra, this_exposure_spectrum.obj)
                /\ exten_idx' = exten_idx + 1
                /\ UNCHANGED <<rd_pc, rd_ret, hdu_open>>
    /\ UNCHANGED <<input_file, hdulist>>

\* return STIS1DSpectrum(all_association_spectra, orig_file=input_file)
ReadReturn ==
    /\ rd_pc = "loop"
    /\ exten_idx = Len(hdulist)
    /\ rd_ret' = STIS1DSpectrum(all_association_spectra, Some(input_file))
    /\ rd_pc' = "returned"
    /\ hdu_open' = FALSE
    /\ UNCHANGED <<input_file, hdulist, exten_idx, all_association_spectra>>

-----------------------------------------------------------------------------
(* plotspec: numbers, paths and file names. *)

\* A float that may be NaN or infinite.
Fin(x) == [k |-> "fin", v |-> x]
NaN    == [k |-> "nan", v |-> 0]
Inf    == [k |-> "inf", v |-> 0]

\* numpy.isfinite
IsFinite(x) == x.k = "fin"

\* all(numpy.isfinite(r))
AllFinite(r) == \A j \in DOMAIN r : IsFinite(r[j])

SetMin(S) == CHOOSE x \in S : \A y \in S : x <= y
SetMax(S) == CHOOSE x \in S : \A y \in S : x >= y

\* numpy.nanmin / numpy.nanmax of a series holding at least one number:
\* the NaN entries are ignored.
NanMin(a) == SetMin({a[j].v : j \in {j \in DOMAIN a : a[j].k # "nan"}})
NanMax(a) == SetMax({a[j].v : j \in {j \in DOMAIN a : a[j].k # "nan"}})

\* The output_size argument: an int, or a float given in tenths.
IntArg(n)        == [isint |-> TRUE, x10 |-> 10 * n]
FloatArg(tenths) == [isint |-> FALSE, x10 |-> tenths]

\* Lines 210-212: an int is kept, anything else becomes int(round(.)).
IntegerSize(arg) ==
    IF arg.isint THEN arg.x10 \div 10 ELSE PyRound(arg.x10, 10)

\* '{0:04d}'.format(n) for n >= 0: the decimal digits of n, zero-padded on
\* the left to a width of at least four.
DigitChars == <<"0", "1", "2", "3", "4", "5", "6", "7", "8", "9">>

RECURSIVE Digits(_)
Digits(n) == IF n < 10 THEN <<DigitChars[n + 1]>>
             ELSE Append(Digits(n \div 10), DigitChars[(n % 10) + 1])

RECURSIVE PadLeft(_, _, _)
PadLeft(str, width, fill) ==
    IF Len(str) >= width THEN str ELSE PadLeft(<<fill>> \o str, width, fill)

Format04d(n) == PadLeft(Digits(n), 4, "0")

\* str.rfind(ch), counted from 1: 0 when ch does not occur.
RFind(str, ch) ==
    LET at == {j \in 1..Len(str) : str[j] = ch}
    IN  IF at = {} THEN 0 ELSE SetMax(at)

\* str.rstrip('/')
RECURSIVE RStripSep(_)
RStripSep(str) ==
    IF str # <<>> /\ str[Len(str)] = "/"
    THEN RStripSep(SubSeq(str, 1, Len(str) - 1))
    ELSE str

\* os.path.split (posixpath): <<head, tail>>.
PathSplit(path) ==
    LET j    == RFind(path, "/")
        head == SubSeq(path, 1, j)
        tail == SubSeq(path, j + 1, Len(path))
        allSep == \A x \in 1..Len(head) : head[x] = "/"
    IN  <<IF head # <<>> /\ ~allSep THEN RStripSep(head) ELSE head, tail>>

\* os.path.dirname
PathDirname(path) == PathSplit(path)[1]

\* os.path.splitext (posixpath): <<root, ext>>.  The extension starts at the
\* last dot of the last component, unless only dots precede it there.
PathSplitext(path) ==
    LET sepIndex == RFind(path, "/")
        dotIndex == RFind(path, ".")
    IN  IF dotIndex > sepIndex
           /\ \E x \in (sepIndex + 1)..(dotIndex - 1) : path[x] # "."
        THEN <<SubSeq(path, 1, dotIndex - 1), SubSeq(path, dotIndex, Len(path))>>
        ELSE <<path, <<>>>>

\* Lines 355-357 with the size inserted unpadded.
RevisedOutputFileUnpadded(path, size) ==
    LET output_splits == PathSplit(path)
        file_splits   == PathSplitext(output_splits[2])
    IN  output_splits[1] \o <<"/">> \o file_splits[1] \o <<"_">> \o Digits(size)
            \o file_splits[2]

\* Lines 355-357: revised_output_file.
RevisedOutputFile(path, size) ==
    LET output_splits == PathSplit(path)
        file_splits   == PathSplitext(output_splits[2])
    IN  output_splits[1] \o <<"/">> \o file_splits[1] \o <<"_">> \o Format04d(size)
            \o file_splits[2]

\* The requested output paths, given by their parts: a directory, a stem and
\* an extension (with its dot, or empty).
PathParts ==
    { [dir |-> <<"o">>,                stem |-> <<"f">>,           ext |-> <<".", "p">>],
      [dir |-> <<"/", "t", "/", "o">>, stem |-> <<"f", ".", "b">>, ext |-> <<".", "p">>],
      [dir |-> <<"o", ".", "d">>,      stem |-> <<"f">>,           ext |-> <<>>],
      [dir |-> <<"/">>,                stem |-> <<"f">>,           ext |-> <<".", "p">>] }

\* os.path.join(dir, stem + ext)
JoinParts(c) ==
    (IF c.dir[Len(c.dir)] = "/" THEN c.dir ELSE c.dir \o <<"/">>) \o c.stem \o c.ext

\* A file name without any directory.
BareFile == <<"f", ".", "p">>

OutputFiles == {JoinParts(c) : c \in PathParts} \cup {BareFile}

OutputSizes ==
    {IntArg(64), IntArg(128), IntArg(1024), IntArg(12345), FloatArg(1285), FloatArg(2564)}

\* errno values of a failed os.mkdir (0: it succeeded).
EACCES == 13
OtherErrnos == {2, 17}      \* ENOENT, EEXIST

\* What os.path.isdir may answer for a directory name, and how os.mkdir may
\* end there.  The empty name is never a directory and cannot be created.
IsdirAnswers(dir)  == IF dir = <<>> THEN {FALSE} ELSE {TRUE, FALSE}
MkdirOutcomes(dir) == IF dir = <<>> THEN {2} ELSE {0, EACCES} \cup OtherErrnos

-----------------------------------------------------------------------------
(* plotspec: the inputs of one loop iteration. *)

\* A dict without one of its keys.
Without(m, key) == [x \in DOMAIN m \ {key} |-> m[x]]

\* The first of `keys` that dict m lacks, as <<key>>; <<>> when it has all.
RECURSIVE FirstMissing(_, _)
FirstMissing(m, keys) ==
    IF keys = <<>> THEN <<>>
    ELSE IF Head(keys) \notin DOMAIN m THEN <<Head(keys)>>
    ELSE FirstMissing(m, Tail(keys))

\* The keys plotspec reads from a stitched spectrum, in the order of lines
\* 254-258, and those it may read from a plot-metrics dict.
StitchedKeys == <<"wls", "fls", "flerrs", "dqs", "title">>
DebugKeys    == <<"median_flux", "median_fluxerr", "fluxerr_95th">>
MetricsKeys  == {"optimal_xaxis_range", "y_axis_range", "median_flux",
                 "median_fluxerr", "fluxerr_95th", "avoid_regions"}

\* Wavelength series: each holds at least one number; one holds a NaN.
WlsSeries == { <<Fin(2), Fin(5)>>, <<NaN, Fin(3), Fin(4)>> }

StitchedSpectrum(wls) ==
    [wls |-> wls, fls |-> "fls", flerrs |-> "flerrs", dqs |-> "dqs",
     title |-> "title_addendum"]

\* stitched_spectra[i]: complete, or lacking one key.
StitchedInputs ==
    {StitchedSpectrum(w) : w \in WlsSeries}
    \cup {Without(StitchedSpectrum(<<Fin(2), Fin(5)>>), key) : key \in {"wls", "title"}}

FiniteXRange == <<Fin(3), Fin(4)>>
XRanges      == {FiniteXRange, <<NaN, NaN>>, <<Fin(3), Inf>>}
AvoidRegionLists == { <<>>, <<[minwl |-> 0, maxwl |-> 9]>> }

PlotMetrics(xr, ar) ==
    [optimal_xaxis_range |-> xr, y_axis_range |-> <<0, 7>>,
     median_flux |-> "median_flux", median_fluxerr |-> "median_fluxerr",
     fluxerr_95th |-> "fluxerr_95th", avoid_regions |-> ar]

\* plot_metrics[i]: complete, or lacking one key.
MetricsInputs ==
    {PlotMetrics(xr, <<>>) : xr \in XRanges}
    \cup {PlotMetrics(FiniteXRange, ar) : ar \in AvoidRegionLists}
    \cup {Without(PlotMetrics(xr, <<>>), key) :
              xr \in {FiniteXRange, <<NaN, NaN>>},
              key \in {"optimal_xaxis_range", "y_axis_range", "median_flux", "avoid_regions"}}

\* The x-axis limits the rendering engine may choose by itself for a curve
\* over the series: the data range, or the data range with a margin.
NaturalXRanges(wls) ==
    { <<NanMin(wls) - m, NanMax(wls) + m>> : m \in {0, 1} }

-----------------------------------------------------------------------------
(* plotspec: the subplots.  An axes object is a record of what was drawn on *)
(* it and of its settings.                                                  *)

NewAxes ==
    [title_right  |-> None,      \* set_title(..., loc="right")
     title_center |-> None,      \* set_title(..., loc="center")
     curve        |-> None,      \* the series drawn by plot()
     autoscaled   |-> None,      \* the x limits the engine chose for the curve
     grid         |-> FALSE,
     xlim         |-> <<0, 1>>,  \* the current x-axis limits
     ylim         |-> None,      \* the limits given to set_ylim, if any
     overlay      |-> FALSE,     \* specutils.debug_oplot was called
     spans        |-> <<>>,      \* the axvspan intervals, in call order
     bgcolor      |-> "white",
     yticklabels  |-> "auto",
     text         |-> None,
     xticks       |-> None,
     xformatter   |-> None,
     yformatter   |-> None,
     xlabel       |-> None,
     ylabel       |-> None,
     labelsize    |-> None]

\* The smallest interval holding both.
Hull(r, lo, hi) ==
    << IF lo < r[1] THEN lo ELSE r[1], IF hi > r[2] THEN hi ELSE r[2] >>

\* axvspan(lo, hi): the span is added and the x-axis is autoscaled to hold it.
AxVSpan(ax, lo, hi) ==
    [ax EXCEPT !.spans = Append(@, <<lo, hi>>), !.xlim = Hull(@, lo, hi)]

RECURSIVE AxVSpans(_, _)
AxVSpans(ax, regions) ==
    IF regions = <<>> THEN ax
    ELSE AxVSpans(AxVSpan(ax, Head(regions).minwl, Head(regions).maxwl), Tail(regions))

\* set_xticks(ticks): the ticks are set and the view grows to hold them.
SetXTicks(ax, ticks) ==
    [ax EXCEPT !.xticks = Some(ticks), !.xlim = Hull(@, ticks[1], ticks[2])]

\* A set_xlim that leaves the limits as they are.
SetXLimIgnored(ax, range) == ax

\* set_xlim(range)
SetXLim(ax, range) == [ax EXCEPT !.xlim = range]

\* set_ylim(range)
SetYLim(ax, range) == [ax EXCEPT !.ylim = Some(range)]

\* Lines 296-301 and 327-332: the thumbnail's two rotated x ticks.
ThumbnailTicks(ax, all_wls) ==
    LET minwl == NanMin(all_wls)
        maxwl == NanMax(all_wls)
    IN  [SetXTicks(ax, <<minwl, maxwl>>) EXCEPT !.xformatter = Some("%6.1f")]

\* Lines 303-311 and 336-344: the big plot's labels.
BigPlotLabels(ax) ==
    [ax EXCEPT !.labelsize = Some(14),
               !.xlabel = Some("Wavelength"),
               !.ylabel = Some("Flux"),
               !.yformatter = IF full_ylabels THEN Some("%3.2E") ELSE @]

\* What one loop iteration leaves: the axes, the font setting, the captured
\* x range and the exception that ended it (<<>> when it ran to its end).
IterResult(ax, rc, xr, exc) == [ax |-> ax, rc |-> rc, xrange |-> xr, exc |-> exc]

KeyError(key) == <<[type |-> "KeyError", key |-> key]>>
SpecUtilsError(key) == <<[type |-> "SpecUtilsError", key |-> key]>>

\* Lines 280-290: the debug overlay.  Returns the axes and the exception.
DebugOverlay(ax, st, pm) ==
    LET missing == FirstMissing(pm, DebugKeys)
        optx    == pm.optimal_xaxis_range
        ax1     == [ax EXCEPT !.overlay = TRUE]
        ax2     == AxVSpan(ax1, NanMin(st.wls), optx[1].v)
        ax3     == AxVSpan(ax2, optx[2].v, NanMax(st.wls))
    IN  IF missing # <<>> THEN <<ax, KeyError(missing[1])>>
        ELSE IF "avoid_regions" \notin DOMAIN pm THEN <<ax3, KeyError("avoid_regions")>>
        ELSE <<AxVSpans(ax3, pm.avoid_regions), <<>>>>

\* Lines 272-315: the Valid state.  `natural` is what get_xlim() answers
\* after the curve is drawn.
RenderValid(ax, rc, st, pm, natural) ==
    LET all_wls == st.wls
        ax1  == [ax EXCEPT !.curve = Some(all_wls), !.autoscaled = Some(natural),
                           !.grid = TRUE, !.xlim = natural]
        xr   == ax1.xlim                                   \* pyplot_xrange
        dbg  == IF debug THEN DebugOverlay(ax1, st, pm) ELSE <<ax1, <<>>>>
        ax2  == SetXLim(dbg[1], xr)
        rc3  == IF is_bigplot THEN "default" ELSE "size=10"
        ax3  == IF is_bigplot THEN BigPlotLabels(ax2) ELSE ThumbnailTicks(ax2, all_wls)
    IN  IF dbg[2] # <<>> THEN IterResult(dbg[1], rc, xr, dbg[2])
        ELSE IF debug THEN IterResult(ax3, rc3, xr, <<>>)
        ELSE IF "y_axis_range" \notin DOMAIN pm
             THEN IterResult(ax3, rc3, xr, KeyError("y_axis_range"))
        ELSE IterResult(SetYLim(ax3, pm.y_axis_range), rc3, xr, <<>>)

\* Lines 318-350: the Degenerate state.
RenderDegenerate(ax, rc, st, pm) ==
    LET all_wls == st.wls
        ax1  == SetXLim(ax, <<NanMin(all_wls), NanMax(all_wls)>>)
        ax2  == [ax1 EXCEPT !.bgcolor = "lightgrey", !.yticklabels = "none"]
        rc3  == IF is_bigplot THEN "default" ELSE "size=10"
        ax3  == IF is_bigplot THEN BigPlotLabels(ax2) ELSE ThumbnailTicks(ax2, all_wls)
        textsize == IF is_bigplot THEN "x-large" ELSE "small"
        plottext == IF is_bigplot THEN "Fluxes are all 0." ELSE "Fluxes are \n all 0."
        ax4  == [ax3 EXCEPT !.text = Some([x |-> "0.5", y |-> "0.5", s |-> plottext,
                                           horizontalalignment |-> "center",
                                           verticalalignment |-> "center",
                                           size |-> textsize])]
    IN  IterResult(ax4, rc3, pyplot_xrange, <<>>)

\* Lines 262-265: the titles of a big plot.
SubplotTitles(ax, st, idx) ==
    LET ax1 == IF is_bigplot THEN [ax EXCEPT !.title_right = Some(st.title)] ELSE ax
    IN  IF n_associations > 1 /\ is_bigplot
        THEN [ax1 EXCEPT !.title_center =
                  Some(<<"Association ", association_indices[idx] + 1, "/", n_associations>>)]
        ELSE ax1

\* The state of a subplot with the test of line 271 inverted.
SubplotStateInverted(pm) ==
    IF AllFinite(pm.optimal_xaxis_range) THEN "Degenerate" ELSE "Valid"

\* Line 271: the state of a subplot.
SubplotState(pm) ==
    IF AllFinite(pm.optimal_xaxis_range) THEN "Valid" ELSE "Degenerate"

\* Lines 250-350: one iteration of the loop, on subplot idx.
RenderSubplot(ax, rc, idx, st, pm, natural) ==
    LET missing == FirstMissing(st, StitchedKeys)
        ax1     == SubplotTitles(ax, st, idx)
    IN  IF missing # <<>> THEN IterResult(ax, rc, pyplot_xrange, SpecUtilsError(missing[1]))
        ELSE IF "optimal_xaxis_range" \notin DOMAIN pm
             THEN IterResult(ax1, rc, pyplot_xrange, KeyError("optimal_xaxis_range"))
        ELSE IF SubplotState(pm) = "Valid"
             THEN RenderValid(ax1, rc, st, pm, natural)
             ELSE RenderDegenerate(ax1, rc, st, pm)

-----------------------------------------------------------------------------
(* plotspec: the steps of one call. *)

MaxPlotAssoc == 2   \* associations of the spectrum handed to plotspec

\* stis_spectrum.orig_file
OrigFile == <<"d", "/", "a", ".", "f">>

\* len(stitched_spectra): one stitched spectrum per chosen association.
NSubplots == Len(association_indices)

\* The message of line 221, piece by piece.
MkdirMessage ==
    <<"*** ", "MAKE_HST_SPEC_PREVIEWS ERROR", ": Output directory could not be created, ",
      "'Permission denied'", "\n">>

\* The values of plotVars when plotspec is not running: between calls, and
\* when plotspec is not the entry point at all.
PlotIdle ==
    << <<0, <<>>, "none", <<>>, IntArg(0), FALSE, FALSE>>,
       <<"ready", 0, FALSE, 0, <<>>, <<>>, <<>>, [adjust |-> "none", suptitle |-> None], <<>>, <<>>>>,
       <<"default", "default", <<>>, <<>>, <<>>, FALSE>> >>

\* The arguments of the calls.  Calls that vary what is rendered (the number
\* of associations, the two plot sizes the previews are made in, the debug
\* and label flags, screen or file) go to one output file; calls that vary
\* the output file and the pixel size render one association.
RenderingCalls ==
    [n_associations : 1..MaxPlotAssoc, output_type : {"screen", "png"},
     output_file : {<<"o", "/", "f", ".", "p">>},
     output_size : {IntArg(128), IntArg(1024)},
     debug : BOOLEAN, full_ylabels : BOOLEAN]

NamingCalls ==
    [n_associations : {1}, output_type : {"png"},
     output_file : OutputFiles, output_size : OutputSizes,
     debug : {FALSE}, full_ylabels : {FALSE}]

PlotCalls == RenderingCalls \cup NamingCalls

\* plotspec is called.
PlotCall ==
    /\ pl_pc = "ready"
    /\ \E args \in PlotCalls :
         /\ n_associations' = args.n_associations
         /\ association_indices' =
                get_association_indices([j \in 1..args.n_associations |-> j])
         /\ output_type' = args.output_type
         /\ output_file' = args.output_file
         /\ output_size_arg' = args.output_size
         /\ debug' = args.debug
         /\ full_ylabels' = args.full_ylabels
    /\ pl_pc' = "start"
    /\ rc_entry' = rc_font
    /\ UNCHANGED <<output_size, is_bigplot, subplot_i, stitched_i, metrics_i,
                   pyplot_xrange, this_figure, these_plotareas, pl_exc, rc_font,
                   mkdir_calls, stderr, saved_files, shown>>

\* A mkdir failure that is always reported as permission denied.
MkdirFailedAllFatal(errno) == <<"exited", <<[type |-> "SystemExit", code |-> 1]>>, MkdirMessage>>

\* Lines 219-224: what a failed os.mkdir leads to: the new pl_pc, the
\* exception and what is written to stderr.
MkdirFailed(errno) ==
    IF errno = EACCES
    THEN <<"exited", <<[type |-> "SystemExit", code |-> 1]>>, MkdirMessage>>
    ELSE <<"raised", <<[type |-> "OSError", errno |-> errno]>>, <<>>>>

\* Line 215: is the output directory looked at?
NeedsDirectory(type) == type # "screen"

\* Lines 209-224: the size becomes an integer; in file mode the output
\* directory is created if it is not there.
PlotEnter ==
    /\ pl_pc = "start"
    /\ output_size' = IntegerSize(output_size_arg)
    /\ IF NeedsDirectory(output_type)
       THEN LET dir == PathDirname(output_file)
            IN  \E isdir \in IsdirAnswers(dir) :
                  IF isdir
                  THEN pl_pc' = "figure" /\ UNCHANGED <<mkdir_calls, stderr, pl_exc>>
                  ELSE \E errno \in MkdirOutcomes(dir) :
                         /\ mkdir_calls' = Append(mkdir_calls, [path |-> dir, errno |-> errno])
                         /\ IF errno = 0
                            THEN pl_pc' = "figure" /\ UNCHANGED <<stderr, pl_exc>>
                            ELSE /\ pl_pc' = MkdirFailed(errno)[1]
                                 /\ pl_exc' = MkdirFailed(errno)[2]
                                 /\ stderr' = stderr \o MkdirFailed(errno)[3]
       ELSE pl_pc' = "figure" /\ UNCHANGED <<mkdir_calls, stderr, pl_exc>>
    /\ UNCHANGED <<plotParams, is_bigplot, subplot_i, stitched_i, metrics_i,
                   pyplot_xrange, this_figure, these_plotareas, rc_font, rc_entry,
                   saved_files, shown>>

\* Lines 226-246: the figure and its empty subplots.
PlotFigure ==
    /\ pl_pc = "figure"
    /\ is_bigplot' = (output_size > 128)
    /\ these_plotareas' = [j \in 1..NSubplots |-> NewAxes]
    /\ this_figure' = IF is_bigplot'
                      THEN [adjust |-> "hspace=0.3,top=0.915",
                            suptitle |-> Some(PathSplit(OrigFile)[2])]
                      ELSE [adjust |-> "top=0.85,bottom=0.3,left=0.25,right=0.8",
                            suptitle |-> None]
    /\ pl_pc' = "loop"
    /\ UNCHANGED <<plotParams, output_size, subplot_i, stitched_i, metrics_i,
                   pyplot_xrange, pl_exc, plotWorld>>

\* Lines 249-350: one iteration of the loop over the stitched spectra.  The
\* iteration reads stitched_spectra[i] and plot_metrics[i], which are drawn
\* here, and the engine's natural x range for the curve.
PlotSubplot ==
    /\ pl_pc = "loop"
    /\ subplot_i < NSubplots
    /\ \E st \in StitchedInputs, pm \in MetricsInputs :
         \E natural \in IF "wls" \in DOMAIN st THEN NaturalXRanges(st.wls) ELSE {<<0, 1>>} :
           LET idx == subplot_i + 1
               r   == RenderSubplot(these_plotareas[idx], rc_font, idx, st, pm, natural)
           IN  /\ stitched_i' = st
               /\ metrics_i' = pm
               /\ subplot_i' = idx
               /\ these_plotareas' = [these_plotareas EXCEPT ![idx] = r.ax]
               /\ rc_font' = r.rc
               /\ pyplot_xrange' = r.xrange
               /\ pl_exc' = r.exc
               /\ pl_pc' = IF r.exc # <<>> THEN "raised" ELSE "loop"
    /\ UNCHANGED <<plotParams, output_size, is_bigplot, this_figure, rc_entry,
                   mkdir_calls, stderr, saved_files, shown>>

\* Lines 352-363: the figure is saved under the revised name, or shown.
PlotOutput ==
    /\ pl_pc = "loop"
    /\ subplot_i = NSubplots
    /\ IF output_type # "screen"
       THEN /\ saved_files' = Append(saved_files, RevisedOutputFile(output_file, output_size))
            /\ UNCHANGED shown
       ELSE /\ shown' = TRUE
            /\ UNCHANGED saved_files
    /\ pl_pc' = "done"
    /\ UNCHANGED <<plotParams, output_size, is_bigplot, subplot_i, stitched_i, metrics_i,
                   pyplot_xrange, this_figure, these_plotareas, pl_exc, rc_font, rc_entry, mkdir_calls,
                   stderr>>

\* The call is over, by a return or by an exception that the caller
\* handles: its arguments, its locals and the record of what it did are
\* dropped.  matplotlib's font setting is process-wide and stays.
PlotLeave ==
    /\ pl_pc \in {"done", "raised"}
    /\ n_associations' = PlotIdle[1][1]
    /\ association_indices' = PlotIdle[1][2]
    /\ output_type' = PlotIdle[1][3]
    /\ output_file' = PlotIdle[1][4]
    /\ output_size_arg' = PlotIdle[1][5]
    /\ debug' = PlotIdle[1][6]
    /\ full_ylabels' = PlotIdle[1][7]
    /\ pl_pc' = "ready"
    /\ output_size' = PlotIdle[2][2]
    /\ is_bigplot' = PlotIdle[2][3]
    /\ subplot_i' = PlotIdle[2][4]
    /\ stitched_i' = PlotIdle[2][5]
    /\ metrics_i' = PlotIdle[2][6]
    /\ pyplot_xrange' = PlotIdle[2][7]
    /\ this_figure' = PlotIdle[2][8]
    /\ these_plotareas' = PlotIdle[2][9]
    /\ pl_exc' = PlotIdle[2][10]
    /\ rc_entry' = rc_font
    /\ mkdir_calls' = PlotIdle[3][3]
    /\ stderr' = PlotIdle[3][4]
    /\ saved_files' = PlotIdle[3][5]
    /\ shown' = PlotIdle[3][6]
    /\ UNCHANGED rc_font

-----------------------------------------------------------------------------
(* The specifications. *)

vars == <<selVars, ctorVars, readVars, plotVars>>

\* get_association_indices called on a list of 0..MaxAssoc associations.
SelInit ==
    /\ associations \in AssociationLists
    /\ subplot_indices = <<>>
    /\ sel_pc = "call"
    /\ ctor_call = CtorIdle[1]
    /\ ctor_ret = CtorIdle[2]
    /\ input_file = ReadIdle[1]
    /\ hdulist = ReadIdle[2]
    /\ hdu_open = ReadIdle[3]
    /\ exten_idx = ReadIdle[4]
    /\ all_association_spectra = ReadIdle[5]
    /\ rd_pc = ReadIdle[6]
    /\ rd_ret = ReadIdle[7]
    /\ n_associations = PlotIdle[1][1]
    /\ association_indices = PlotIdle[1][2]
    /\ output_type = PlotIdle[1][3]
    /\ output_file = PlotIdle[1][4]
    /\ output_size_arg = PlotIdle[1][5]
    /\ debug = PlotIdle[1][6]
    /\ full_ylabels = PlotIdle[1][7]
    /\ pl_pc = PlotIdle[2][1]
    /\ output_size = PlotIdle[2][2]
    /\ is_bigplot = PlotIdle[2][3]
    /\ subplot_i = PlotIdle[2][4]
    /\ stitched_i = PlotIdle[2][5]
    /\ metrics_i = PlotIdle[2][6]
    /\ pyplot_xrange = PlotIdle[2][7]
    /\ this_figure = PlotIdle[2][8]
    /\ these_plotareas = PlotIdle[2][9]
    /\ pl_exc = PlotIdle[2][10]
    /\ rc_font = PlotIdle[3][1]
    /\ rc_entry = PlotIdle[3][2]
    /\ mkdir_calls = PlotIdle[3][3]
    /\ stderr = PlotIdle[3][4]
    /\ saved_files = PlotIdle[3][5]
    /\ shown = PlotIdle[3][6]

SelNext == SelCall /\ UNCHANGED <<ctorVars, readVars, plotVars>>
SpecSel == SelInit /\ [][SelNext]_vars

\* One constructor call with arguments drawn from the domains above.
CtorInit ==
    /\ ctor_call = [fn |-> "none"]
    /\ ctor_ret = [status |-> "none"]
    /\ associations = SelIdle[1]
    /\ subplot_indices = SelIdle[2]
    /\ sel_pc = SelIdle[3]
    /\ input_file = ReadIdle[1]
    /\ hdulist = ReadIdle[2]
    /\ hdu_open = ReadIdle[3]
    /\ exten_idx = ReadIdle[4]
    /\ all_association_spectra = ReadIdle[5]
    /\ rd_pc = ReadIdle[6]
    /\ rd_ret = ReadIdle[7]
    /\ n_associations = PlotIdle[1][1]
    /\ association_indices = PlotIdle[1][2]
    /\ output_type = PlotIdle[1][3]
    /\ output_file = PlotIdle[1][4]
    /\ output_size_arg = PlotIdle[1][5]
    /\ debug = PlotIdle[1][6]
    /\ full_ylabels = PlotIdle[1][7]
    /\ pl_pc = PlotIdle[2][1]
    /\ output_size = PlotIdle[2][2]
    /\ is_bigplot = PlotIdle[2][3]
    /\ subplot_i = PlotIdle[2][4]
    /\ stitched_i = PlotIdle[2][5]
    /\ metrics_i = PlotIdle[2][6]
    /\ pyplot_xrange = PlotIdle[2][7]
    /\ this_figure = PlotIdle[2][8]
    /\ these_plotareas = PlotIdle[2][9]
    /\ pl_exc = PlotIdle[2][10]
    /\ rc_font = PlotIdle[3][1]
    /\ rc_entry = PlotIdle[3][2]
    /\ mkdir_calls = PlotIdle[3][3]
    /\ stderr = PlotIdle[3][4]
    /\ saved_files = PlotIdle[3][5]
    /\ shown = PlotIdle[3][6]

CtorNext ==
    \/ NewOrder /\ UNCHANGED <<selVars, readVars, plotVars>>
    \/ NewExposure /\ UNCHANGED <<selVars, readVars, plotVars>>
    \/ NewSpectrum /\ UNCHANGED <<selVars, readVars, plotVars>>
SpecCtor == CtorInit /\ [][CtorNext]_vars

\* readspec called on a file of up to MaxExt table extensions.
ReadInit ==
    /\ input_file \in FileNames
    /\ hdulist \in HduLists
    /\ hdu_open = FALSE
    /\ exten_idx = 0
    /\ all_association_spectra = <<>>
    /\ rd_pc = "start"
    /\ rd_ret = [status |-> "none"]
    /\ associations = SelIdle[1]
    /\ subplot_indices = SelIdle[2]
    /\ sel_pc = SelIdle[3]
    /\ ctor_call = CtorIdle[1]
    /\ ctor_ret = CtorIdle[2]
    /\ n_associations = PlotIdle[1][1]
    /\ association_indices = PlotIdle[1][2]
    /\ output_type = PlotIdle[1][3]
    /\ output_file = PlotIdle[1][4]
    /\ output_size_arg = PlotIdle[1][5]
    /\ debug = PlotIdle[1][6]
    /\ full_ylabels = PlotIdle[1][7]
    /\ pl_pc = PlotIdle[2][1]
    /\ output_size = PlotIdle[2][2]
    /\ is_bigplot = PlotIdle[2][3]
    /\ subplot_i = PlotIdle[2][4]
    /\ stitched_i = PlotIdle[2][5]
    /\ metrics_i = PlotIdle[2][6]
    /\ pyplot_xrange = PlotIdle[2][7]
    /\ this_figure = PlotIdle[2][8]
    /\ these_plotareas = PlotIdle[2][9]
    /\ pl_exc = PlotIdle[2][10]
    /\ rc_font = PlotIdle[3][1]
    /\ rc_entry = PlotIdle[3][2]
    /\ mkdir_calls = PlotIdle[3][3]
    /\ stderr = PlotIdle[3][4]
    /\ saved_files = PlotIdle[3][5]
    /\ shown = PlotIdle[3][6]

ReadNext ==
    \/ ReadOpen /\ UNCHANGED <<selVars, ctorVars, plotVars>>
    \/ ReadExten /\ UNCHANGED <<selVars, ctorVars, plotVars>>
    \/ ReadReturn /\ UNCHANGED <<selVars, ctorVars, plotVars>>
SpecRead == ReadInit /\ [][ReadNext]_vars

\* A process that has not called plotspec yet.
PlotInit ==
    /\ n_associations = PlotIdle[1][1]
    /\ association_indices = PlotIdle[1][2]
    /\ output_type = PlotIdle[1][3]
    /\ output_file = PlotIdle[1][4]
    /\ output_size_arg = PlotIdle[1][5]
    /\ debug = PlotIdle[1][6]
    /\ full_ylabels = PlotIdle[1][7]
    /\ pl_pc = PlotIdle[2][1]
    /\ output_size = PlotIdle[2][2]
    /\ is_bigplot = PlotIdle[2][3]
    /\ subplot_i = PlotIdle[2][4]
    /\ stitched_i = PlotIdle[2][5]
    /\ metrics_i = PlotIdle[2][6]
    /\ pyplot_xrange = PlotIdle[2][7]
    /\ this_figure = PlotIdle[2][8]
    /\ these_plotareas = PlotIdle[2][9]
    /\ pl_exc = PlotIdle[2][10]
    /\ rc_font = PlotIdle[3][1]
    /\ rc_entry = PlotIdle[3][2]
    /\ mkdir_calls = PlotIdle[3][3]
    /\ stderr = PlotIdle[3][4]
    /\ saved_files = PlotIdle[3][5]
    /\ shown = PlotIdle[3][6]
    /\ associations = SelIdle[1]
    /\ subplot_indices = SelIdle[2]
    /\ sel_pc = SelIdle[3]
    /\ ctor_call = CtorIdle[1]
    /\ ctor_ret = CtorIdle[2]
    /\ input_file = ReadIdle[1]
    /\ hdulist = ReadIdle[2]
    /\ hdu_open = ReadIdle[3]
    /\ exten_idx = ReadIdle[4]
    /\ all_association_spectra = ReadIdle[5]
    /\ rd_pc = ReadIdle[6]
    /\ rd_ret = ReadIdle[7]

PlotNext ==
    \/ PlotCall /\ UNCHANGED <<selVars, ctorVars, readVars>>
    \/ PlotEnter /\ UNCHANGED <<selVars, ctorVars, readVars>>
    \/ PlotFigure /\ UNCHANGED <<selVars, ctorVars, readVars>>
    \/ PlotSubplot /\ UNCHANGED <<selVars, ctorVars, readVars>>
    \/ PlotOutput /\ UNCHANGED <<selVars, ctorVars, readVars>>
    \/ PlotLeave /\ UNCHANGED <<selVars, ctorVars, readVars>>
SpecPlot == PlotInit /\ [][PlotNext]_vars

-----------------------------------------------------------------------------
(* Claims about get_association_indices. *)

\* C1: for every association count N >= 0 the selector returns 0..N-1 in
\* order when N <= 3, and when N > 3 exactly three indices: 0, the integer
\* nearest to N/2 (a tie going up, so N = 5 gives 3), and N-1.  The pinned
\* examples are N = 5 -> [0, 3, 4] and N = 7 -> [0, 4, 6].
C1_SelectorPolicy ==
    sel_pc = "returned" =>
        LET N == Len(associations)
        IN  /\ N <= 3 => subplot_indices = [i \in 1..N |-> i - 1]
            /\ N > 3 => /\ Len(subplot_indices) = 3
                        /\ subplot_indices[1] = 0
                        /\ 2 * subplot_indices[2] - N \in {0, 1}
                        /\ subplot_indices[3] = N - 1
            /\ N = 5 => subplot_indices = <<0, 3, 4>>
            /\ N = 7 => subplot_indices = <<0, 4, 6>>

C1_Witness ==
    sel_pc = "returned" /\ Len(associations) = 5 /\ subplot_indices = <<0, 3, 4>>

-----------------------------------------------------------------------------
(* Claims about the constructors. *)

\* C2: constructing a STISExposureSpectrum from an empty list of orders
\* raises ValueError and yields no object; constructing it from one or more
\* orders succeeds and its orders are the given orders in the given order.
C2_ExposureConstruction ==
    ctor_call.fn = "STISExposureSpectrum" =>
        IF Len(ctor_call.order_spectra) = 0
        THEN ctor_ret.status = "raised" /\ ctor_ret.obj = "ValueError"
        ELSE /\ ctor_ret.status = "ok"
             /\ ctor_ret.obj.orders = ctor_call.order_spectra

C2_Witness ==
    /\ ctor_call.fn = "STISExposureSpectrum"
    /\ Len(ctor_call.order_spectra) = 2
    /\ ctor_call.order_spectra[1] # ctor_call.order_spectra[2]
    /\ ctor_ret.status = "ok"
    /\ ctor_ret.obj.orders = ctor_call.order_spectra

\* C3 (as claimed): in every successfully constructed STISOrderSpectrum the
\* four arrays all have length nelem, and an omitted array is zero-filled
\* with length nelem (0 when nelem is omitted).
C3_OrderArraysMatchNelem ==
    (ctor_call.fn = "STISOrderSpectrum" /\ ctor_ret.status = "ok") =>
        LET o == ctor_ret.obj
            declared == IF ctor_call.nelem = <<>> THEN 0 ELSE ctor_call.nelem[1]
            ZeroFilled(a) == Len(a) = declared /\ \A i \in 1..Len(a) : a[i] = 0
        IN  /\ o.nelem = declared
            /\ Len(o.wavelengths) = o.nelem
            /\ Len(o.fluxes) = o.nelem
            /\ Len(o.fluxerrs) = o.nelem
            /\ Len(o.dqs) = o.nelem
            /\ ctor_call.wavelengths = <<>> => ZeroFilled(o.wavelengths)
            /\ ctor_call.fluxes = <<>> => ZeroFilled(o.fluxes)
            /\ ctor_call.fluxerrs = <<>> => ZeroFilled(o.fluxerrs)
            /\ ctor_call.dqs = <<>> => ZeroFilled(o.dqs)

-----------------------------------------------------------------------------
(* Claims about readspec. *)

\* C4 (as claimed): every spectrum that readspec returns holds at least one
\* association.
C4_SpectrumHasAssociation ==
    rd_pc = "returned" => Len(rd_ret.obj.associations) >= 1

\* C5: readspec on a file with k table extensions, extension j having r_j
\* rows, returns a spectrum with exactly k associations in extension order,
\* association j having exactly r_j orders in table-row order, each order
\* carrying its row's nelem and four arrays; if an extension has zero rows
\* readspec raises the ValueError of STISExposureSpectrum, returns no
\* spectrum, and never gets past that extension.
C5_ReadPreservesStructure ==
    LET EmptyExts == {j \in 1..Len(hdulist) : Len(hdulist[j]) = 0}
        OrderOfRow(o, row) ==
            /\ o.nelem = row.nelem
            /\ o.wavelengths = row.WAVELENGTH
            /\ o.fluxes = row.FLUX
            /\ o.fluxerrs = row.ERROR
            /\ o.dqs = row.DQ
    IN  /\ rd_pc = "returned" =>
            /\ EmptyExts = {}
            /\ rd_ret.status = "ok"
            /\ rd_ret.obj.orig_file = <<input_file>>
            /\ Len(rd_ret.obj.associations) = Len(hdulist)
            /\ \A j \in 1..Len(hdulist) :
                  LET orders == rd_ret.obj.associations[j].orders
                  IN  /\ Len(orders) = Len(hdulist[j])
                      /\ \A r \in 1..Len(hdulist[j]) : OrderOfRow(orders[r], hdulist[j][r])
        /\ rd_pc = "raised" =>
            /\ rd_ret.status = "raised" /\ rd_ret.obj = "ValueError"
            /\ exten_idx + 1 \in EmptyExts
        /\ \A j \in EmptyExts : exten_idx < j /\ rd_pc # "returned"
        /\ (rd_pc = "loop" /\ exten_idx + 1 \in EmptyExts) => ENABLED ReadExten

C5_Witness ==
    /\ rd_pc = "returned"
    /\ Len(hdulist) = 2
    /\ Len(hdulist[1]) = 2
    /\ hdulist[1][1] # hdulist[1][2]
    /\ Len(hdulist[2]) = 1
    /\ Len(rd_ret.obj.associations) = 2

-----------------------------------------------------------------------------
(* Claims about plotspec. *)

\* The subplots whose loop iteration ran to its end.
Rendered ==
    IF pl_pc \in {"loop", "done"} THEN 1..subplot_i
    ELSE IF pl_pc = "raised" /\ subplot_i >= 1 THEN 1..(subplot_i - 1)
    ELSE {}

\* The last iteration got as far as line 271, where the state is chosen.
LastStateChosen ==
    /\ pl_pc \in {"loop", "done", "raised"}
    /\ subplot_i >= 1
    /\ \A j \in 1..Len(StitchedKeys) : StitchedKeys[j] \in DOMAIN stitched_i
    /\ "optimal_xaxis_range" \in DOMAIN metrics_i

\* What a panel looks like in each state.
LooksValid(ax) ==
    /\ ax.curve # <<>> /\ ax.grid
    /\ ax.bgcolor = "white" /\ ax.yticklabels = "auto" /\ ax.text = <<>>

LooksDegenerate(ax) ==
    /\ ax.curve = <<>> /\ ~ax.grid
    /\ ~ax.overlay /\ ax.spans = <<>>
    /\ ax.ylim = <<>>
    /\ ax.bgcolor = "lightgrey"
    /\ ax.yticklabels = "none"
    /\ ax.text # <<>>
    /\ ax.text[1].s \in {"Fluxes are all 0.", "Fluxes are \n all 0."}
    /\ ax.text[1].x = "0.5" /\ ax.text[1].y = "0.5"
    /\ ax.text[1].horizontalalignment = "center"
    /\ ax.text[1].verticalalignment = "center"

\* lo and hi are the least and the greatest number of the series.
IsDataRange(wls, lo, hi) ==
    LET nums == {wls[j].v : j \in {j \in 1..Len(wls) : wls[j].k = "fin"}}
    IN  /\ lo \in nums /\ hi \in nums
        /\ \A x \in nums : lo <= x /\ x <= hi

\* C6: the state of a subplot is chosen once: Valid (curve drawn, grid on)
\* exactly when both bounds of the optimal x-axis range are finite, else
\* Degenerate.  A Degenerate panel, in big-plot and thumbnail size, with
\* debug set or not, has no curve and no debug overlay or shading, its
\* y-axis is never set, its x-axis is set to the least and greatest
\* wavelength, its background is grey, its y tick labels are suppressed and
\* it shows the centered 'Fluxes are all 0.' text.  Every rendered panel is
\* in exactly one of the two states.
C6_DegenerateOverridesDebug ==
    /\ \A j \in Rendered :
         LooksValid(these_plotareas[j]) \/ LooksDegenerate(these_plotareas[j])
    /\ LastStateChosen =>
         LET ax == these_plotareas[subplot_i]
             r  == metrics_i.optimal_xaxis_range
             finite == r[1].k = "fin" /\ r[2].k = "fin"
         IN  /\ finite <=> (ax.curve # <<>> /\ ax.grid)
             /\ ~finite =>
                  /\ LooksDegenerate(ax)
                  /\ IsDataRange(stitched_i.wls, ax.xlim[1], ax.xlim[2])
                  /\ pl_exc = <<>>

C6_Witness ==
    /\ pl_pc = "done"
    /\ debug
    /\ ~is_bigplot
    /\ LastStateChosen
    /\ metrics_i.optimal_xaxis_range[2].k = "inf"
    /\ LooksDegenerate(these_plotareas[subplot_i])
    /\ these_plotareas[subplot_i].xlim = <<2, 5>>

\* The value that a string of decimal digits denotes; -1 if it is not one.
RECURSIVE DigitsValue(_)
DigitsValue(str) ==
    IF str = <<>> THEN 0
    ELSE LET last == str[Len(str)]
             at   == {d \in 1..10 : DigitChars[d] = last}
             rest == DigitsValue(SubSeq(str, 1, Len(str) - 1))
         IN  IF at = {} \/ rest < 0 THEN -1
             ELSE 10 * rest + ((CHOOSE d \in at : TRUE) - 1)

\* C7: in file mode a call that returns has saved exactly one file, named
\* dir/stem_SSSS.ext for the requested dir/stem.ext: the same directory, the
\* same stem and extension, and between them an underscore and the pixel
\* size (the size argument, rounded to the nearest integer when it is not
\* one) in decimal, zero-padded to four digits.
C7_OutputFileName ==
    (pl_pc = "done" /\ output_type # "screen") =>
        \E c \in PathParts :
            /\ output_file = JoinParts(c)
            /\ Len(saved_files) = 1
            /\ LET name   == saved_files[1]
                   prefix == c.dir \o <<"/">> \o c.stem \o <<"_">>
                   nd     == Len(name) - Len(prefix) - Len(c.ext)
                   digits == SubSeq(name, Len(prefix) + 1, Len(prefix) + nd)
                   size   == DigitsValue(digits)
               IN  /\ nd >= 4
                   /\ SubSeq(name, 1, Len(prefix)) = prefix
                   /\ SubSeq(name, Len(prefix) + nd + 1, Len(name)) = c.ext
                   /\ size >= 0
                   /\ nd > 4 => digits[1] # "0"
                   /\ 10 * size - 5 <= output_size_arg.x10
                   /\ output_size_arg.x10 < 10 * size + 5
                   /\ size = output_size

C7_Witness ==
    /\ pl_pc = "done"
    /\ output_file = <<"o", "/", "f", ".", "p">>
    /\ output_size_arg = [isint |-> FALSE, x10 |-> 2564]
    /\ saved_files = << <<"o", "/", "f", "_", "0", "2", "5", "6", ".", "p">> >>

\* C8: in file mode, when the output directory is absent and os.mkdir fails:
\* on errno 13 the run ends with exit status 1 after a message holding
\* 'MAKE_HST_SPEC_PREVIEWS ERROR' is written to stderr; on any other errno
\* the OSError propagates as it is and nothing is written.  Either way no
\* subplot is rendered and no file is saved.  In screen mode os.mkdir is
\* never called.
C8_MkdirFailure ==
    /\ output_type = "screen" => mkdir_calls = <<>>
    /\ Len(mkdir_calls) <= 1
    /\ mkdir_calls # <<>> =>
         LET call == mkdir_calls[1]
         IN  /\ call.path = PathSplit(output_file)[1]
             /\ call.errno = 13 =>
                  /\ pl_pc = "exited"
                  /\ pl_exc # <<>>
                  /\ pl_exc[1].type = "SystemExit" /\ pl_exc[1].code = 1
                  /\ \E k \in 1..Len(stderr) : stderr[k] = "MAKE_HST_SPEC_PREVIEWS ERROR"
             /\ call.errno \notin {0, 13} =>
                  /\ pl_pc = "raised"
                  /\ pl_exc # <<>>
                  /\ pl_exc[1].type = "OSError" /\ pl_exc[1].errno = call.errno
                  /\ stderr = <<>>
             /\ call.errno # 0 =>
                  /\ these_plotareas = <<>>
                  /\ subplot_i = 0
                  /\ saved_files = <<>>
                  /\ ~shown
    /\ pl_pc = "exited" => (mkdir_calls # <<>> /\ mkdir_calls[1].errno = 13)

C8_Witness ==
    /\ pl_pc = "exited"
    /\ mkdir_calls = << [path |-> <<"o">>, errno |-> 13] >>
    /\ stderr # <<>>
    /\ saved_files = <<>>

\* C9 (as claimed): if the stitched spectrum or the plot metrics of a
\* rendered association lack an expected key, the call ends with a
\* SpecUtilsError naming a missing key, no later association is processed
\* and nothing is saved or shown.
C9_MissingKeyIsSpecUtilsError ==
    LET missing ==
            {StitchedKeys[j] : j \in {j \in 1..Len(StitchedKeys) :
                                         StitchedKeys[j] \notin DOMAIN stitched_i}}
            \cup {key \in MetricsKeys : key \notin DOMAIN metrics_i}
    IN  (pl_pc \in {"loop", "done", "raised"} /\ subplot_i >= 1 /\ missing # {}) =>
            /\ pl_pc = "raised"
            /\ pl_exc # <<>>
            /\ pl_exc[1].type = "SpecUtilsError"
            /\ pl_exc[1].key \in missing
            /\ saved_files = <<>>
            /\ ~shown

\* C10: in the Valid state, once the iteration is over, the x-axis limits
\* equal the range the engine chose for the curve alone (one of the natural
\* ranges of the series), whatever the debug overlay and shading did to
\* them in between, and the y-axis limits are set, to the y_axis_range of
\* the metrics, exactly when debug is not set.
C10_ValidAxisLimits ==
    /\ \A j \in Rendered :
         LET ax == these_plotareas[j]
         IN  ax.curve # <<>> =>
                /\ ax.autoscaled # <<>>
                /\ ax.xlim = ax.autoscaled[1]
                /\ (ax.ylim # <<>>) <=> ~debug
    /\ (LastStateChosen /\ subplot_i \in Rendered
            /\ these_plotareas[subplot_i].curve # <<>>) =>
         LET ax == these_plotareas[subplot_i]
         IN  /\ pyplot_xrange = ax.autoscaled[1]
             /\ \E lo, hi \in 0..9 :
                  /\ IsDataRange(stitched_i.wls, lo, hi)
                  /\ ax.xlim[1] <= lo /\ hi <= ax.xlim[2]
                  /\ ax.xlim \in {<<lo, hi>>, <<lo - 1, hi + 1>>}
             /\ ~debug => ax.ylim = <<metrics_i.y_axis_range>>
             /\ debug => ax.ylim = <<>>

C10_Witness ==
    /\ pl_pc = "done"
    /\ debug
    /\ LastStateChosen
    /\ these_plotareas[subplot_i].curve # <<>>
    /\ \E k \in 1..Len(these_plotareas[subplot_i].spans) :
          these_plotareas[subplot_i].spans[k] = <<0, 9>>
    /\ these_plotareas[subplot_i].xlim = <<2, 5>>
    /\ these_plotareas[subplot_i].ylim = <<>>

\* C11 (as claimed): the process-wide font setting is saved and restored
\* around the styling: when a call of plotspec is over, by a return or by an
\* exception, the setting is what it was when the call began; so every call
\* begins under the default setting, whatever calls came before it; and
\* every styling step of a big plot, the figure title of line 244 and the
\* subplot titles of lines 262-265 included, is taken under the default
\* setting.
C11_FontSaveRestore ==
    /\ [](pl_pc \in {"done", "raised"} => rc_font = rc_entry)
    /\ [](pl_pc = "start" => rc_font = "default")
    /\ [][(/\ is_bigplot'
           /\ \/ pl_pc = "figure" /\ pl_pc' = "loop"
              \/ pl_pc = "loop" /\ subplot_i' = subplot_i + 1)
          => rc_font = "default"]_vars

====
